---- MODULE Spec2Model ----
(***************************************************************************)
(* GNIRS pipeline orchestration: the baseline-calibration stage runner,    *)
(* the 1D extraction stage and the peak-matching heuristic, modelled from  *)
(* src/src/gnirsBaselineCalibration.py and src/src/gnirsExtractSpectra1D.py *)
(*                                                                         *)
(* Files are abstract names standing for the glob patterns the code tests; *)
(* an external IRAF task is modelled by the outputs its call declares.     *)
(* Peak positions, offsets and tolerances are whole numbers of pixels.     *)
(***************************************************************************)
EXTENDS Integers, Sequences, FiniteSets, TLC

VARIABLES
    \* ---- baseline calibration stage (gnirsBaselineCalibration.start) ----
    config,        \* the configuration file: Start, Stop, overwrite, CalibrationDirectories
    run,           \* number of the current invocation of start()
    calpc,         \* position in start(): "setup", "validate", "steps", "returned", "exit", "error"
    di,            \* index of the calibration directory the for loop is at
    valindex,      \* the step counter
    stop,          \* local copy of Stop (rewritten by the interactive correction)
    nominal_wavelengths,          \* "unbound" or the name of the table bound to the local
    advertised_accuracy_percent,  \* -1 while unbound
    orders,        \* the list of orders of the current directory
    cwd,           \* IRAF working directory: 0 the directory start() began in, i directory i
    fs,            \* fs[i]: the files present in calibration directory i
    fs0,           \* fs at the beginning of the current invocation
    cur,           \* the directory entered last (0 before the first)
    executed,      \* the steps whose branch was entered for directory cur, in order
    log,           \* warnings, removals and task calls made for directory cur, in order
    outcome,       \* outcome[i]: how the processing of directory i ended
    lastCall,      \* the last step function called: its inputs and what it did
    \* ---- 1D extraction stage (gnirsExtractSpectra1D.start) ----
    econfig,       \* the configuration file as the extraction stage reads it
    epc,           \* position in start(): "idle", "loop", "returned", "exit", "error"
    oi,            \* index of the observation directory the two for loops are at
    ecwd,          \* working directory: 0 the directory start() began in, i directory i
    useApall,              \* the local of that name: "True", "False" or "yes"
    subtractBkg,           \* the local of that name
    checkPeaksMatch,       \* the local of that name
    calculateSpectrumSNR,  \* the local of that name
    efs,           \* the files of the observation directory processed last
    applied,       \* the settings used for the observation directory processed last
    calls,         \* the calls of extractSpectra1D made for that directory, in order
    eend,          \* how the processing of that directory ended
    peakcheck,     \* the check of the peaks made for that directory
    \* ---- the peak-matching loop (gnirsExtractSpectra1D.peaksMatch) ----
    ppc,           \* "idle", "call" before the loop, "done" after it
    scipeaks,      \* the science peaks, one entry per extension
    telpeaks,      \* the telluric peaks
    pixeldifference,   \* expected offset of the science from the telluric peak
    toleranceOffset,   \* the configured tolerance
    matched,       \* what the loop produced: status, peaksMatched, reExtract
    reextracted,   \* the call of reExtractSpectra1D: its inputs and how it ended
    \* ---- flux calibration of a science directory (flux_calibrate.start) ----
    fcfg,          \* the truth value of the directory, the method, overwrite, the orders
    fpc,           \* "idle", "enter", "orders" in the loop, "returned", "exit", "error"
    fentry,        \* the standard chosen on entering the directory, and how that ended
    fo,            \* index of the order the loop is at
    fdisk,         \* fdisk[o]: the outputs of order o present in the science directory
    passes,        \* the passes of the loop made so far, in order
    \* ---- the check of a manifest (gnirsCheckData.checklist) ----
    headerdict,    \* file name -> header record (hdr false: not in the dictionary)
    manifest,      \* the list file, its '.bak' copy and the list as it was given
    cpc,           \* "idle", "check", "done"
    report,        \* what checklist logged and how it ended
    \* ---- the data sheets (write_pdf.start) ----
    rcfg,          \* the science directories' values and the two extraction options
    rpc,           \* "idle", "targets", "returned", "error"
    ri,            \* index of the science directory at hand
    docs,          \* per directory visited: what was opened, measured and how it ended
    \* ---- single calls of a function ----
    call,          \* the function called and its arguments
    ret            \* whether it has returned, and what it left

calVars == <<config, run, calpc, di, valindex, stop, nominal_wavelengths,
             advertised_accuracy_percent, orders, cwd, fs, fs0, cur, executed,
             log, outcome, lastCall>>

extVars == <<econfig, epc, oi, ecwd, useApall, subtractBkg, checkPeaksMatch,
             calculateSpectrumSNR, efs, applied, calls, eend, peakcheck>>

peakVars == <<ppc, scipeaks, telpeaks, pixeldifference, toleranceOffset, matched,
              reextracted>>

fluxVars == <<fcfg, fpc, fentry, fo, fdisk, passes>>

\* The variables of the stages modelled after the peak matching.
checkVars == <<headerdict, manifest, cpc, report>>

reportVars == <<rcfg, rpc, ri, docs>>

funVars == <<call, ret>>

restVars == <<fluxVars, checkVars, reportVars, funVars>>

vars == <<calVars, extVars, peakVars, restVars>>

\* A stage that is not running.
CalIdle ==
    /\ config = <<>> /\ run = 0 /\ calpc = "idle" /\ di = 0 /\ valindex = 0 /\ stop = 0
    /\ nominal_wavelengths = "unbound" /\ advertised_accuracy_percent = -1
    /\ orders = <<>> /\ cwd = 0 /\ fs = <<>> /\ fs0 = <<>> /\ cur = 0
    /\ executed = <<>> /\ log = <<>> /\ outcome = <<>> /\ lastCall = <<>>

ExtIdle ==
    /\ econfig = <<>> /\ epc = "idle" /\ oi = 0 /\ ecwd = 0
    /\ useApall = "False" /\ subtractBkg = "none"
    /\ checkPeaksMatch = FALSE /\ calculateSpectrumSNR = FALSE
    /\ efs = {} /\ applied = <<>> /\ calls = <<>> /\ eend = "none"
    /\ peakcheck = <<>>

FluxIdle ==
    /\ fcfg = <<>> /\ fpc = "idle" /\ fentry = <<>> /\ fo = 0 /\ fdisk = <<>>
    /\ passes = <<>>

CheckIdle == headerdict = <<>> /\ manifest = <<>> /\ cpc = "idle" /\ report = <<>>

ReportIdle == rcfg = <<>> /\ rpc = "idle" /\ ri = 0 /\ docs = <<>>

FunIdle == call = <<>> /\ ret = <<>>

RestIdle == FluxIdle /\ CheckIdle /\ ReportIdle /\ FunIdle

PeaksIdle ==
    /\ ppc = "idle" /\ scipeaks = <<>> /\ telpeaks = <<>>
    /\ pixeldifference = 0 /\ toleranceOffset = 0 /\ matched = <<>>
    /\ reextracted = <<>>

----------------------------------------------------------------------------
\* Bounds of the model.
MaxDirs == 2      \* entries of [CalibrationDirectories]
MaxRuns == 2      \* invocations of start() on the same directories

\* Program constants.
FirstStep == 1
LastStep == 5
AccuracySB == 5

Range(s) == {s[i] : i \in DOMAIN s}

\* a..b as a sequence
RECURSIVE Upto(_, _)
Upto(a, b) == IF a > b THEN <<>> ELSE <<a>> \o Upto(a + 1, b)

----------------------------------------------------------------------------
\* Directory paths are represented by the substrings the code tests with `in`.
\* A path holding '110' also holds '10'.
CalPaths ==
    { {"LB_SXD", "10", "32"}, {"LB_LXD", "110", "10"}, {"SB_SXD", "10", "32"},
      {"SB_SXD"}, {"110", "10"} }

\* Start/Stop pairs of the configuration file: every valid range and some
\* invalid ones.
StepRanges ==
    { r \in (1..5) \X (1..5) : r[1] <= r[2] } \cup { <<3, 2>>, <<0, 5>>, <<1, 6>> }

\* Start/Stop pairs explored with more than one calibration directory.
MultiDirRanges == { <<1, 5>>, <<2, 4>>, <<3, 2>> }

\* Start/stop pairs the user may enter at the prompt.
UserRanges == { <<1, 5>>, <<2, 3>>, <<5, 4>>, <<0, 6>> }

Manifests == {"all.list", "QHflats.list", "IRflats.list", "pinholes.list", "arcs.list"}

\* The order in which start() tests the manifests.
ManifestOrder == <<"all.list", "QHflats.list", "IRflats.list", "pinholes.list", "arcs.list">>

\* What a directory listing may hold when start() looks for the manifests.
ManifestSets == {Manifests} \cup { Manifests \ {m} : m \in Manifests }

\* A calibration directory as the stage finds it: its path, its flag in
\* [CalibrationDirectories] and the manifests it holds.
DirKinds ==
    [calpath : CalPaths, enabled : {TRUE}, manifests : {Manifests}]
        \cup [calpath : {{"SB_SXD", "10", "32"}}, enabled : {TRUE},
              manifests : ManifestSets \ {Manifests}]
        \cup [calpath : {{"SB_SXD", "10", "32"}}, enabled : {FALSE}, manifests : {Manifests}]

ArrayIds == {"SN7638228.1", "SN7638228.1.2", "other"}

\* Output files, named after the glob patterns of the step functions.
PreparedFiles == {"nN.fits", "rnN.fits"}
FlatFiles == {"QHflat", "QHflat_bpm", "IRflat", "IRflat_bpm", "masterflat"}
SdistFiles == {"database/idrn"}
WaveCalFiles == {"f_arc_comb", "database/idwtf", "database/_sdist", "database/_lamp",
                 "arcorders.list", "arc_calibrated.fits"}
OutputFiles == PreparedFiles \cup FlatFiles \cup SdistFiles \cup {"arc_comb.fits"}
                   \cup WaveCalFiles

\* Log events.
Warn(w) == [k |-> "warn", a |-> {w}]
Remove(S) == [k |-> "remove", a |-> S]
Tool(t) == [k |-> "tool", a |-> {t}]
WarnAbout(w, f) == [k |-> "warn", a |-> {w, f}]

Tools(ev) == SelectSeq(ev, LAMBDA e : e.k = "tool")
Removals(ev) == SelectSeq(ev, LAMBDA e : e.k = "remove")
Warnings(ev) == SelectSeq(ev, LAMBDA e : e.k = "warn")

----------------------------------------------------------------------------
\* The step functions. Each takes the files of the working directory and returns
\* the files it leaves, the events it logged and whether it raised SystemExit.

Result(files, ev, exit) == [fs |-> files, ev |-> ev, exit |-> exit]

\* "if len(oldfiles) > 0: if overwrite: remove else: return": whether the step
\* function returns without computing.
SkipExisting_Never(oldfiles, overwrite) == FALSE

SkipExisting(oldfiles, overwrite) == oldfiles # {} /\ ~overwrite

\* Variant: old outputs are not looked at, the tasks always run.
prepareCalibrations_NoSkip(files, overwrite) ==
    Result(files \cup {"nN.fits", "rnN.fits"}, <<Tool("nsprepare"), Tool("nsreduce")>>, FALSE)

prepareCalibrations(files, overwrite) ==
    LET oldfiles == files \cap PreparedFiles
        kept == IF overwrite THEN files \ oldfiles ELSE files
        evOld == IF oldfiles = {} THEN <<>>
                 ELSE IF overwrite THEN <<Warn("removing old files"), Remove(oldfiles)>>
                 ELSE <<Warn("skip prepareCalibrations")>>
    IN  IF SkipExisting(oldfiles, overwrite)
        THEN Result(files, evOld, FALSE)
        ELSE Result(kept \cup {"nN.fits", "rnN.fits"},
                    evOld \o <<Tool("nsprepare"), Tool("nsreduce")>>, FALSE)

\* One "if os.path.exists(f)" block of makeFlat: the files left, the events, the flag.
FlatCheck(files, f, overwrite) ==
    IF f \in files
    THEN IF overwrite
         THEN [fs |-> files \ {f}, ev |-> <<Warn("removing old files"), Remove({f})>>,
               flag |-> FALSE]
         ELSE [fs |-> files, ev |-> <<WarnAbout("using existing", f)>>, flag |-> TRUE]
    ELSE [fs |-> files, ev |-> <<>>, flag |-> FALSE]

\* Variant: nsflat is left out as soon as one of the two files is kept.
LampFlat_EitherKept(files, flat, bpm, task, overwrite) ==
    LET c1 == FlatCheck(files, flat, overwrite)
        c2 == FlatCheck(c1.fs, bpm, overwrite)
    IN  IF c1.flag \/ c2.flag
        THEN [fs |-> c2.fs, ev |-> c1.ev \o c2.ev]
        ELSE [fs |-> c2.fs \cup {flat, bpm}, ev |-> c1.ev \o c2.ev \o <<Tool(task)>>]

\* The flat and mask of one lamp, then nsflat unless both are kept.
LampFlat(files, flat, bpm, task, overwrite) ==
    LET c1 == FlatCheck(files, flat, overwrite)
        c2 == FlatCheck(c1.fs, bpm, overwrite)
    IN  IF c1.flag /\ c2.flag
        THEN [fs |-> c2.fs, ev |-> c1.ev \o c2.ev]
        ELSE [fs |-> c2.fs \cup {flat, bpm}, ev |-> c1.ev \o c2.ev \o <<Tool(task)>>]

makeFlat(files, overwrite) ==
    LET qh == LampFlat(files, "QHflat", "QHflat_bpm", "nsflat QH", overwrite)
        ir == LampFlat(qh.fs, "IRflat", "IRflat_bpm", "nsflat IR", overwrite)
        assemble == <<Tool("fxcopy"), Tool("fxinsert")>>
        ev2 == qh.ev \o ir.ev
    IN  IF "masterflat" \in ir.fs
        THEN IF overwrite
             THEN Result(ir.fs, ev2 \o <<Warn("removing old files"), Remove({"masterflat"})>>
                                    \o assemble, FALSE)
             ELSE Result(ir.fs, ev2 \o <<Warn("skip masterflat")>>, FALSE)
        ELSE Result(ir.fs \cup {"masterflat"}, ev2 \o assemble, FALSE)

\* Variant: a wrong number of pinholes ends the run.
makeSdistortion_FatalMismatch(files, overwrite, rightNumber) ==
    LET oldfiles == files \cap SdistFiles
        kept == IF overwrite THEN files \ oldfiles ELSE files
    IN  IF SkipExisting(oldfiles, overwrite)
        THEN Result(files, <<Warn("skip makeSdistortion")>>, FALSE)
        ELSE Result(kept \cup {"database/idrn"},
                    <<Tool("nssdist")>> \o (IF rightNumber THEN <<>>
                                            ELSE <<Warn("pinhole count")>>),
                    ~rightNumber)

\* rightNumber: whether the database files report pinholesnumber features.
makeSdistortion(files, overwrite, rightNumber) ==
    LET oldfiles == files \cap SdistFiles
        kept == IF overwrite THEN files \ oldfiles ELSE files
        evOld == IF oldfiles = {} THEN <<>>
                 ELSE IF overwrite THEN <<Warn("removing old files"), Remove(oldfiles)>>
                 ELSE <<Warn("skip makeSdistortion")>>
        check == IF rightNumber THEN <<>> ELSE <<Warn("pinhole count")>>
    IN  IF SkipExisting(oldfiles, overwrite)
        THEN Result(files, evOld, FALSE)
        ELSE Result(kept \cup {"database/idrn"}, evOld \o <<Tool("nssdist")>> \o check, FALSE)

\* imcopyOk: whether every imcopy of an order column succeeds.
makeWaveCal(files, overwrite, imcopyOk) ==
    LET hasArc == "arc_comb.fits" \in files
        evArc == IF hasArc
                 THEN IF overwrite
                      THEN <<Warn("removing old files"), Remove({"arc_comb.fits"}),
                             Tool("nscombine")>>
                      ELSE <<Warn("skip nscombine")>>
                 ELSE <<Tool("nscombine")>>
        f1 == files \cup {"arc_comb.fits"}
        oldfiles == f1 \cap WaveCalFiles
        kept == IF overwrite THEN f1 \ oldfiles ELSE f1
        evOld == IF oldfiles = {} THEN <<>>
                 ELSE IF overwrite THEN <<Warn("removing old files"), Remove(oldfiles)>>
                 ELSE <<Warn("skip makeWaveCal")>>
        fit == <<Tool("nsfitcoords"), Tool("nstransform"), Tool("nswavelength"),
                 Tool("nsfitcoords"), Tool("nstransform"), Tool("imcopy")>>
        fitted == kept \cup {"f_arc_comb", "database/_sdist", "database/idwtf",
                             "database/_lamp"}
    IN  IF SkipExisting(oldfiles, overwrite)
        THEN Result(f1, evArc \o evOld, FALSE)
        ELSE IF ~imcopyOk
        THEN Result(fitted, evArc \o evOld \o fit, TRUE)
        ELSE Result(fitted \cup {"arcorders.list", "arc_calibrated.fits"},
                    evArc \o evOld \o fit \o <<Tool("odcombine")>>, FALSE)

----------------------------------------------------------------------------
\* gnirsBaselineCalibration.start

NoCall == [fn |-> "none", dir |-> 0, pre |-> {}, overwrite |-> FALSE, ev |-> <<>>,
           post |-> {}, arrayid |-> "unread"]

Dirs == 1..Len(config.dirs)

\* Variant: the stop value is not tested against the last step.
InvalidRange_NoUpper(v, s) == v > s \/ v < FirstStep

\* The condition of the interactive correction loop.
InvalidRange(v, s) == v > s \/ v < FirstStep \/ s > LastStep

\* The XD configuration branch: the orders, and the locals it binds.
KnownXD(calpath) == \E x \in {"LB_SXD", "LB_LXD", "SB_SXD"} : x \in calpath

OrdersOf(calpath) ==
    IF "LB_SXD" \in calpath THEN <<3, 4, 5>> ELSE <<3, 4, 5, 6, 7, 8>>

\* Only the SB_SXD branch assigns the table and the accuracy.
BindsWavelengths(calpath) ==
    "LB_SXD" \notin calpath /\ "LB_LXD" \notin calpath /\ "SB_SXD" \in calpath

\* Variant: the manifests are not tested.
FirstMissing_Unchecked(files, i) == ""

\* The first manifest start() finds missing, "" when none is.
RECURSIVE FirstMissing(_, _)
FirstMissing(files, i) ==
    IF i > Len(ManifestOrder) THEN ""
    ELSE IF ManifestOrder[i] \notin files THEN ManifestOrder[i]
    ELSE FirstMissing(files, i + 1)

\* The grating branch of step 5.
KnownGrating(calpath) == ("10" \in calpath /\ "32" \in calpath) \/ "110" \in calpath

CalInit ==
    /\ \E n \in 1..MaxDirs : \E kinds \in [1..n -> DirKinds] :
       \E r \in (IF n = 1 THEN StepRanges ELSE MultiDirRanges) : \E ow \in BOOLEAN :
          /\ config = [start |-> r[1], stop |-> r[2], overwrite |-> ow,
                       dirs |-> [i \in 1..n |-> [calpath |-> kinds[i].calpath,
                                                 enabled |-> kinds[i].enabled]]]
          /\ fs = [i \in 1..n |-> kinds[i].manifests]
          /\ stop = r[2]
    /\ run = 1
    /\ calpc = "setup"
    /\ di = 1
    /\ valindex = 0
    /\ nominal_wavelengths = "unbound"
    /\ advertised_accuracy_percent = -1
    /\ orders = <<>>
    /\ cwd = 0
    /\ fs0 = fs
    /\ cur = 0
    /\ executed = <<>>
    /\ log = <<>>
    /\ outcome = [i \in DOMAIN fs |-> "pending"]
    /\ lastCall = NoCall

\* The end of one pass of the for loop: the next directory, or the chdir back and
\* the return that follow the loop.
NextDirectory ==
    IF di + 1 > Len(config.dirs)
    THEN /\ calpc' = "returned"
         /\ cwd' = 0
         /\ di' = di + 1
    ELSE /\ calpc' = "setup"
         /\ di' = di + 1
         /\ UNCHANGED cwd

\* SystemExit or an uncaught exception: the process ends where it stands.
Terminate(pc, why) ==
    /\ calpc' = pc
    /\ outcome' = [outcome EXCEPT ![di] = why]
    /\ UNCHANGED <<di>>

\* One pass of the for loop up to the step loop: the enabled test, chdir, the
\* XD configuration, the manifests, and the first test of the start/stop values.
EnterDirectory ==
    /\ calpc = "setup"
    /\ di \in Dirs
    /\ LET d == config.dirs[di] IN
       IF ~d.enabled
       THEN /\ log' = <<Warn("calibration turned off")>>
            /\ outcome' = [outcome EXCEPT ![di] = "off"]
            /\ NextDirectory
            /\ UNCHANGED <<valindex, stop, nominal_wavelengths,
                           advertised_accuracy_percent, orders>>
       ELSE /\ cwd' = di
            /\ IF ~KnownXD(d.calpath)
               THEN /\ Terminate("exit", "exit: unknown XD configuration")
                    /\ log' = <<>>
                    /\ UNCHANGED <<valindex, stop, nominal_wavelengths,
                                   advertised_accuracy_percent, orders>>
               ELSE /\ orders' = OrdersOf(d.calpath)
                    /\ IF BindsWavelengths(d.calpath)
                       THEN /\ nominal_wavelengths' = "SB_SXD"
                            /\ advertised_accuracy_percent' = AccuracySB
                       ELSE UNCHANGED <<nominal_wavelengths, advertised_accuracy_percent>>
                    /\ IF FirstMissing(fs[di], 1) # ""
                       THEN /\ Terminate("exit", "exit: missing manifest")
                            /\ log' = <<WarnAbout("missing", FirstMissing(fs[di], 1))>>
                            /\ UNCHANGED <<valindex, stop>>
                       ELSE /\ valindex' = config.start
                            /\ calpc' = IF InvalidRange(config.start, stop)
                                        THEN "validate" ELSE "steps"
                            /\ log' = <<>>
                            /\ UNCHANGED <<stop, di, outcome>>
    /\ cur' = di
    /\ executed' = <<>>
    /\ lastCall' = NoCall
    /\ UNCHANGED <<config, run, fs, fs0, extVars, peakVars, restVars>>

\* One pass of the correction loop: the user enters a start and a stop value.
PromptRange ==
    /\ calpc = "validate"
    /\ \E r \in UserRanges :
          /\ valindex' = r[1]
          /\ stop' = r[2]
          /\ calpc' = IF InvalidRange(r[1], r[2]) THEN "validate" ELSE "steps"
    /\ UNCHANGED <<config, run, di, nominal_wavelengths, advertised_accuracy_percent,
                   orders, cwd, fs, fs0, cur, executed, log, outcome, lastCall,
                   extVars, peakVars, restVars>>

\* Variant: the counter advances by two.
NextStep_Skip(v) == v + 2

\* valindex += 1
NextStep(v) == v + 1

\* The body of one pass of the step loop: the branch for `step`, with the step
\* function it calls. arrayid is the ARRAYID of the raw header, rightNumber and
\* imcopyOk are what the external tasks report. Step 1 only writes log lines
\* that depend on the cleanir flags: it touches no file and calls no task.
StepBody(step, files, calpath, overwrite, nominal, arrayid, rightNumber, imcopyOk) ==
    CASE step = 1 ->
            [fn |-> "clean", r |-> Result(files, <<>>, FALSE), end |-> "ok"]
      [] step = 2 ->
            IF arrayid \in {"SN7638228.1", "SN7638228.1.2"}
            THEN [fn |-> "prepareCalibrations", r |-> prepareCalibrations(files, overwrite),
                  end |-> "ok"]
            ELSE [fn |-> "none", r |-> Result(files, <<>>, TRUE),
                  end |-> "exit: unknown array ID"]
      [] step = 3 ->
            [fn |-> "makeFlat", r |-> makeFlat(files, overwrite), end |-> "ok"]
      [] step = 4 ->
            IF KnownXD(calpath)
            THEN LET d == makeSdistortion(files, overwrite, rightNumber)
                 IN  [fn |-> "makeSdistortion", r |-> d,
                      end |-> IF d.exit THEN "exit: makeSdistortion" ELSE "ok"]
            ELSE [fn |-> "none", r |-> Result(files, <<>>, TRUE),
                  end |-> "exit: unknown camera"]
      [] step = 5 ->
            IF ~KnownGrating(calpath)
            THEN [fn |-> "none", r |-> Result(files, <<>>, TRUE),
                  end |-> "exit: unknown grating"]
            ELSE IF nominal = "unbound"
            THEN [fn |-> "none", r |-> Result(files, <<>>, FALSE),
                  end |-> "error: nominal_wavelengths unbound"]
            ELSE LET w == makeWaveCal(files, overwrite, imcopyOk)
                 IN  [fn |-> "makeWaveCal", r |-> w,
                      end |-> IF w.exit THEN "exit: imcopy failed" ELSE "ok"]
      [] OTHER ->
            [fn |-> "none", r |-> Result(files, <<>>, TRUE), end |-> "exit: invalid step"]

IsError(end) == end = "error: nominal_wavelengths unbound"

\* One pass of "while valindex <= stop", and what follows the loop when it was
\* the last pass.
RunStep ==
    /\ calpc = "steps"
    /\ valindex <= stop
    /\ \E arrayid \in ArrayIds, rightNumber \in BOOLEAN, imcopyOk \in BOOLEAN :
          LET b == StepBody(valindex, fs[di], config.dirs[di].calpath, config.overwrite,
                            nominal_wavelengths, arrayid, rightNumber, imcopyOk)
          IN  /\ fs' = [fs EXCEPT ![di] = b.r.fs]
              /\ log' = log \o b.r.ev
              /\ lastCall' = [fn |-> b.fn, dir |-> di, pre |-> fs[di],
                              overwrite |-> config.overwrite, ev |-> b.r.ev,
                              post |-> b.r.fs,
                              arrayid |-> IF valindex = 2 THEN arrayid ELSE "unread"]
              /\ IF b.end = "ok"
                 THEN /\ valindex' = NextStep(valindex)
                      /\ IF NextStep(valindex) <= stop
                         THEN UNCHANGED <<calpc, di, cwd, outcome>>
                         ELSE /\ outcome' = [outcome EXCEPT ![di] = "complete"]
                              /\ NextDirectory
                 ELSE /\ Terminate(IF IsError(b.end) THEN "error" ELSE "exit", b.end)
                      /\ UNCHANGED <<valindex, cwd>>
    /\ executed' = Append(executed, valindex)
    /\ UNCHANGED <<config, run, stop, nominal_wavelengths, advertised_accuracy_percent,
                   orders, fs0, cur, extVars, peakVars, restVars>>

\* After start() returned it is invoked again on the same directories; the configuration file is
\* read again and its overwrite flag may have been edited.
Rerun ==
    /\ calpc = "returned"
    /\ run < MaxRuns
    /\ run' = run + 1
    /\ \E ow \in BOOLEAN : config' = [config EXCEPT !.overwrite = ow]
    /\ calpc' = "setup"
    /\ di' = 1
    /\ valindex' = 0
    /\ stop' = config.stop
    /\ nominal_wavelengths' = "unbound"
    /\ advertised_accuracy_percent' = -1
    /\ orders' = <<>>
    /\ cwd' = 0
    /\ fs0' = fs
    /\ cur' = 0
    /\ executed' = <<>>
    /\ log' = <<>>
    /\ outcome' = [i \in DOMAIN fs |-> "pending"]
    /\ lastCall' = NoCall
    /\ UNCHANGED <<fs, extVars, peakVars, restVars>>

CalNext == EnterDirectory \/ PromptRange \/ RunStep \/ Rerun

Init == CalInit /\ ExtIdle /\ PeaksIdle /\ RestIdle

Next == CalNext

Spec == Init /\ [][Next]_vars

----------------------------------------------------------------------------
\* The 1D extraction stage: gnirsExtractSpectra1D.start and extractSpectra1D.

MaxObs == 2       \* entries of [TelluricDirectories] and [ScienceDirectories] together

combinedsrc == "src_comb.fits"
combinedsky == "sky_comb.fits"

\* extractRegularPrefix + inimage
Prefixed(inimage) == IF inimage = combinedsrc THEN "v_src_comb.fits" ELSE "v_sky_comb.fits"

\* What an observation directory may hold when the stage comes to it.
ObsFiles == {combinedsrc, combinedsky, Prefixed(combinedsrc), Prefixed(combinedsky)}

\* The entries of the two directory sections: the section, the truth value, and
\* the substrings of the path the code tests with `in`.
ObsKinds ==
    { [section |-> "TelluricDirectories", enabled |-> TRUE, obspath |-> {"SB_SXD"}],
      [section |-> "TelluricDirectories", enabled |-> FALSE, obspath |-> {"SB_SXD"}],
      [section |-> "ScienceDirectories", enabled |-> TRUE, obspath |-> {"LB_SXD"}],
      [section |-> "ScienceDirectories", enabled |-> TRUE, obspath |-> {"GNIRS"}] }

\* The telluric database directory as a science directory sees it: whether it
\* exists and how many aperture reference files the glob finds in it.
TelRefs == { [telDatabase |-> TRUE, telapfiles |-> 1],
             [telDatabase |-> TRUE, telapfiles |-> 0],
             [telDatabase |-> FALSE, telapfiles |-> 0] }

\* "for section in ['TelluricDirectories', 'ScienceDirectories']": the telluric
\* entries are visited before the science entries.
TelluricFirst(obs) ==
    \A i, j \in DOMAIN obs :
        (i < j) => ~(obs[i].section = "ScienceDirectories"
                     /\ obs[j].section = "TelluricDirectories")

ObsLists == UNION { { obs \in [1..n -> ObsKinds] : TelluricFirst(obs) } : n \in 1..MaxObs }

\* A Python truth value held in a local that is later assigned the string 'yes'.
BoolValue(b) == IF b THEN "True" ELSE "False"

Truthy(v) == v # "False"

\* Variant: the task runs whether or not the output exists.
extractSpectra1D_Always(files, inimage, overwrite) ==
    Result(files \cup {Prefixed(inimage)}, <<Tool("nsextract")>>, FALSE)

extractSpectra1D(files, inimage, overwrite) ==
    IF Prefixed(inimage) \in files
    THEN IF overwrite
         THEN Result(files, <<WarnAbout("removing old", Prefixed(inimage)),
                              Remove({Prefixed(inimage)}), Tool("nsextract")>>, FALSE)
         ELSE Result(files, <<WarnAbout("skipping nsextract", Prefixed(inimage))>>, FALSE)
    ELSE Result(files \cup {Prefixed(inimage)}, <<Tool("nsextract")>>, FALSE)

\* The record kept of one call of extractSpectra1D.
ExtractCall(files, inimage, ua, bkg, overwrite) ==
    LET r == extractSpectra1D(files, inimage, overwrite)
    IN  [inimage |-> inimage, pre |-> files, overwrite |-> overwrite,
         useApall |-> ua, subtractBkg |-> bkg,
         apertureTracingColumns |-> IF Truthy(ua) THEN 20 ELSE 10,
         ev |-> r.ev, post |-> r.fs]

\* The values of the four locals.
Locals(ua, bkg, cpm, snr) ==
    [useApall |-> ua, subtractBkg |-> bkg, checkPeaksMatch |-> cpm,
     calculateSpectrumSNR |-> snr]

\* Variant: the section is not looked at.
PeakCheckWanted_AnySection(section, nsextractInter, cpm) == ~nsextractInter /\ cpm

\* "if 'Science' in section: if not nsextractInter: if checkPeaksMatch:"
PeakCheckWanted(section, nsextractInter, cpm) ==
    section = "ScienceDirectories" /\ ~nsextractInter /\ cpm

NoPeakCheck == [read |-> FALSE, tel |-> [telDatabase |-> FALSE, telapfiles |-> 0],
                ev |-> <<>>]

\* The check of the peaks of one directory: whether the telluric database was
\* looked at, what it held, and what followed, the two peak functions when the
\* reference files are there and a warning when they are not.
PeakCheck(o, telDatabase, telapfiles, cpm) ==
    IF ~PeakCheckWanted(o.section, econfig.nsextractInter, cpm)
    THEN NoPeakCheck
    ELSE [read |-> TRUE,
          tel |-> [telDatabase |-> telDatabase, telapfiles |-> telapfiles],
          ev |-> IF telDatabase /\ telapfiles > 0
                 THEN <<Tool("peaksFind"), Tool("peaksMatch")>>
                 ELSE <<Warn("telluric reference files not available")>>]

\* What one pass of the loop body leaves: the locals, the files, the calls, the end.
Pass(loc, files, cl, end) == [loc |-> loc, fs |-> files, calls |-> cl, end |-> end]

\* The body of the loop for one enabled directory, from the check of the
\* combined spectra to the stepwise setting. telDatabase and telapfiles are what
\* the telluric database directory holds.
ObservationBody(o, files, telDatabase, telapfiles, loc) ==
    IF combinedsrc \notin files
    THEN Pass(loc, files, <<>>, "exit: combined source missing")
    ELSE
    LET snr == loc.calculateSpectrumSNR /\ combinedsky \in files
    IN  IF ~(\E x \in {"LB_SXD", "LB_LXD", "SB_SXD"} : x \in o.obspath)
        THEN Pass([loc EXCEPT !.calculateSpectrumSNR = snr], files, <<>>,
                  "exit: unknown XD configuration")
        ELSE
        LET bkg == IF econfig.nsextractInter THEN "fit" ELSE loc.subtractBkg
            c1 == ExtractCall(files, combinedsrc, loc.useApall, bkg, econfig.overwrite)
            c2 == ExtractCall(c1.post, combinedsky, loc.useApall, bkg, econfig.overwrite)
            cl == IF snr THEN <<c1, c2>> ELSE <<c1>>
            after == cl[Len(cl)].post
            loc1 == [loc EXCEPT !.calculateSpectrumSNR = snr, !.subtractBkg = bkg]
            pk == PeakCheck(o, telDatabase, telapfiles, loc.checkPeaksMatch)
            peaks == pk.read
            telCheck_flag == Tools(pk.ev) # <<>>
            loc2 == IF peaks /\ ~telCheck_flag
                    THEN [loc1 EXCEPT !.checkPeaksMatch = FALSE] ELSE loc1
            loc3 == IF econfig.extractStepwise
                    THEN [loc2 EXCEPT !.useApall = "yes"] ELSE loc2
        IN  IF peaks /\ telCheck_flag
            THEN \* peaksMatch begins by reading sciacq, a name bound nowhere
                 Pass(loc1, after, cl, "error: sciacq is not defined")
            ELSE Pass(loc3, after, cl, "done")

ExtConfigs ==
    [overwrite : BOOLEAN, nsextractInter : BOOLEAN, calculateSpectrumSNR : BOOLEAN,
     useApall : BOOLEAN, subtractBkg : {"none"}, checkPeaksMatch : BOOLEAN,
     extractStepwise : BOOLEAN, obs : ObsLists]

\* start() up to the loop: the configuration is read into the locals.
ExtInit ==
    /\ econfig \in ExtConfigs
    /\ epc = "loop"
    /\ oi = 1
    /\ ecwd = 0
    /\ useApall = BoolValue(econfig.useApall)
    /\ subtractBkg = econfig.subtractBkg
    /\ checkPeaksMatch = econfig.checkPeaksMatch
    /\ calculateSpectrumSNR = econfig.calculateSpectrumSNR
    /\ efs = {}
    /\ applied = Locals("none", "none", FALSE, FALSE)
    /\ calls = <<>>
    /\ eend = "none"
    /\ peakcheck = NoPeakCheck

\* "if not config.getboolean(section, obspath): continue"
SkipObservation ==
    /\ epc = "loop"
    /\ oi \in DOMAIN econfig.obs
    /\ ~econfig.obs[oi].enabled
    /\ oi' = oi + 1
    /\ UNCHANGED <<econfig, epc, ecwd, useApall, subtractBkg, checkPeaksMatch,
                   calculateSpectrumSNR, efs, applied, calls, eend, peakcheck>>
    /\ UNCHANGED <<calVars, peakVars, restVars>>

\* One pass of the loop for an enabled directory.
ProcessObservation ==
    /\ epc = "loop"
    /\ oi \in DOMAIN econfig.obs
    /\ econfig.obs[oi].enabled
    /\ \E files \in SUBSET ObsFiles, tel \in TelRefs :
          LET loc == Locals(useApall, subtractBkg, checkPeaksMatch, calculateSpectrumSNR)
              p == ObservationBody(econfig.obs[oi], files, tel.telDatabase,
                                   tel.telapfiles, loc)
          IN  /\ useApall' = p.loc.useApall
              /\ subtractBkg' = p.loc.subtractBkg
              /\ checkPeaksMatch' = p.loc.checkPeaksMatch
              /\ calculateSpectrumSNR' = p.loc.calculateSpectrumSNR
              /\ efs' = p.fs
              /\ calls' = p.calls
              /\ eend' = p.end
              /\ peakcheck' = IF p.calls = <<>> THEN NoPeakCheck
                               ELSE PeakCheck(econfig.obs[oi], tel.telDatabase,
                                              tel.telapfiles, checkPeaksMatch)
              /\ applied' = [loc EXCEPT !.subtractBkg =
                                IF p.calls = <<>> THEN @ ELSE p.calls[1].subtractBkg]
              /\ epc' = IF p.end = "done" THEN "loop"
                        ELSE IF p.end = "error: sciacq is not defined" THEN "error"
                        ELSE "exit"
              /\ oi' = IF p.end = "done" THEN oi + 1 ELSE oi
    /\ ecwd' = oi
    /\ UNCHANGED econfig
    /\ UNCHANGED <<calVars, peakVars, restVars>>

\* After the loops: the chdir back and the return.
ExtReturn ==
    /\ epc = "loop"
    /\ oi > Len(econfig.obs)
    /\ epc' = "returned"
    /\ ecwd' = 0
    /\ UNCHANGED <<econfig, oi, useApall, subtractBkg, checkPeaksMatch,
                   calculateSpectrumSNR, efs, applied, calls, eend, peakcheck>>
    /\ UNCHANGED <<calVars, peakVars, restVars>>

ExtNext == SkipObservation \/ ProcessObservation \/ ExtReturn

InitExt == CalIdle /\ ExtInit /\ PeaksIdle /\ RestIdle

SpecExt == InitExt /\ [][ExtNext]_vars

----------------------------------------------------------------------------
\* The loop of peaksMatch. The lines before the loop derive pixeldifference from
\* image headers; here it is an input, like the two lists and the tolerance.

MaxExt == 2       \* entries of a list of peaks

\* An entry of a list of peaks: a located center, or 'Peak not found'.
Located(c) == [found |-> TRUE, center |-> c]

PeakNotFound == [found |-> FALSE, center |-> 0]

SciPeakEntries == {PeakNotFound} \cup { Located(c) : c \in {4, 7, 10} }

TelPeakEntries == {PeakNotFound} \cup { Located(c) : c \in {0, 2, 9} }

PixelDifferences == {0, 2}

Tolerances == {3, 5}

PeakLists(entries) == UNION { [1..n -> entries] : n \in 0..MaxExt }

Abs(x) == IF x < 0 THEN -x ELSE x

\* Variant: a difference equal to the tolerance counts as a match.
PeakMatches_Inclusive(scipeak, expectedPeak, tolerance) ==
    scipeak.found /\ Abs(scipeak.center - expectedPeak) <= tolerance

\* The test of one extension: the value appended to peaksMatched.
PeakMatches(scipeak, expectedPeak, tolerance) ==
    scipeak.found /\ Abs(scipeak.center - expectedPeak) < tolerance

\* What a call leaves: how it ended, and the two values it returns.
Matched(status, peaksMatched, reExtract) ==
    [status |-> status, peaksMatched |-> peaksMatched, reExtract |-> reExtract]

\* "for i in range(len(scipeaks))" from extension i on (1-based); peaksMatched and
\* reExtract are the values of the two locals before the pass, bound telling
\* whether reExtract has been assigned.
RECURSIVE MatchLoop(_, _, _, _, _, _, _, _)
MatchLoop(i, sci, tel, offset, tolerance, peaksMatched, bound, reExtract) ==
    IF i > Len(sci)
    THEN IF bound THEN Matched("ok", peaksMatched, reExtract)
         ELSE Matched("UnboundLocalError", <<>>, FALSE)
    ELSE IF i > Len(tel) THEN Matched("IndexError", <<>>, FALSE)
    ELSE IF ~tel[i].found THEN Matched("ValueError", <<>>, FALSE)
    ELSE LET m == PeakMatches(sci[i], tel[i].center + offset, tolerance)
         IN  MatchLoop(i + 1, sci, tel, offset, tolerance,
                       Append(peaksMatched, m), TRUE, ~m)

peaksMatch(sci, tel, offset, tolerance) ==
    MatchLoop(1, sci, tel, offset, tolerance, <<>>, FALSE, FALSE)

\* The lists of orders start() binds for the three XD configurations.
OrderLists == { <<3, 4, 5>>, <<3, 4, 5, 6, 7, 8>> }

\* The loop that rewrites the aperture files, up to its first exception: the
\* telluric aperture file is opened for reading, then peaks_flag, a name bound
\* nowhere, is read.
ApertureLoop(ords, apfileOpens) ==
    IF ords = <<>> THEN "ok"
    ELSE IF ~apfileOpens THEN "IOError"
    ELSE "NameError"

\* "if len(extractedSpectraExtensions) != len(orders): raise SystemExit"
ExtensionCheck(extensions, ords) ==
    IF extensions # Len(ords) THEN "SystemExit" ELSE "ok"

\* How a call of reExtractSpectra1D ends. After the loop comes shutil.copy, and
\* the module does not import shutil.
reExtractSpectra1D(ords, apfileOpens, extensions) ==
    LET afterLoop == ApertureLoop(ords, apfileOpens)
        afterCopy == IF afterLoop = "ok" THEN "NameError" ELSE afterLoop
    IN  IF afterCopy = "ok" THEN ExtensionCheck(extensions, ords) ELSE afterCopy

NotReExtracted == [orders |-> <<>>, extensions |-> 0, status |-> "none"]

PeaksInit ==
    /\ ppc = "call"
    /\ scipeaks \in PeakLists(SciPeakEntries)
    /\ telpeaks \in PeakLists(TelPeakEntries)
    /\ pixeldifference \in PixelDifferences
    /\ toleranceOffset \in Tolerances
    /\ matched = Matched("none", <<>>, FALSE)
    /\ reextracted = NotReExtracted

\* The loop runs and the function returns or raises.
PeaksMatchLoop ==
    /\ ppc = "call"
    /\ matched' = peaksMatch(scipeaks, telpeaks, pixeldifference, toleranceOffset)
    /\ ppc' = "done"
    /\ UNCHANGED <<scipeaks, telpeaks, pixeldifference, toleranceOffset, reextracted>>
    /\ UNCHANGED <<calVars, extVars, restVars>>

\* "if sciReExtract:" the science spectrum is extracted again. The telluric
\* aperture file may open or not and the extracted image has all its extensions
\* or one less.
ReExtract ==
    /\ ppc = "done"
    /\ matched.status = "ok"
    /\ matched.reExtract
    /\ \E ords \in OrderLists, apfileOpens \in BOOLEAN, lost \in 0..1 :
          reextracted' = [orders |-> ords, extensions |-> Len(ords) - lost,
                          status |-> reExtractSpectra1D(ords, apfileOpens,
                                                        Len(ords) - lost)]
    /\ ppc' = "reextracted"
    /\ UNCHANGED <<scipeaks, telpeaks, pixeldifference, toleranceOffset, matched>>
    /\ UNCHANGED <<calVars, extVars, restVars>>

PeaksNext == PeaksMatchLoop \/ ReExtract

InitPeaks == CalIdle /\ ExtIdle /\ PeaksInit /\ RestIdle

SpecPeaks == InitPeaks /\ [][PeaksNext]_vars

----------------------------------------------------------------------------
\* Claims about the baseline-calibration stage.

ValidConfigRange == ~InvalidRange(config.start, config.stop)

\* C1: with a configured range 1 <= Start <= Stop <= 5, the steps entered for an
\* enabled directory are Start, Start+1, ... in increasing order without gap or
\* repetition and never beyond Stop, and a directory that completes has run
\* exactly Start..Stop.
C1_StepsInOrderOnce ==
    (ValidConfigRange /\ cur # 0 /\ config.dirs[cur].enabled) =>
        /\ \A i \in DOMAIN executed :
              executed[i] = config.start + i - 1 /\ executed[i] <= config.stop
        /\ outcome[cur] = "complete" => executed = Upto(config.start, config.stop)

C1_Witness ==
    /\ cur = 2 /\ outcome[cur] = "complete"
    /\ config.start = 2 /\ config.stop = 4
    /\ executed = <<2, 3, 4>>

\* The declared outputs of the two step functions of C2.
Declared(fn) == IF fn = "prepareCalibrations" THEN PreparedFiles ELSE SdistFiles

\* Every task call of ev comes after the removal of S.
RemovedBeforeTools(ev, S) ==
    \E i \in DOMAIN ev :
        /\ ev[i] = Remove(S)
        /\ \A j \in DOMAIN ev : ev[j].k = "tool" => j > i

\* C2: prepareCalibrations and makeSdistortion decide on (declared outputs
\* exist, overwrite) alone: outputs and no overwrite, a warning and nothing
\* else; outputs and overwrite, every old output removed and then the tasks;
\* no output, the tasks.
C2_SkipOverwriteCompute ==
    lastCall.fn \in {"prepareCalibrations", "makeSdistortion"} =>
        LET old == lastCall.pre \cap Declared(lastCall.fn)
            ev == lastCall.ev
        IN  /\ (old # {} /\ ~lastCall.overwrite) =>
                  /\ Tools(ev) = <<>> /\ Removals(ev) = <<>>
                  /\ Warnings(ev) # <<>>
                  /\ lastCall.post = lastCall.pre
            /\ (old # {} /\ lastCall.overwrite) =>
                  /\ RemovedBeforeTools(ev, old)
                  /\ Tools(ev) # <<>>
                  /\ Declared(lastCall.fn) \subseteq lastCall.post
            /\ old = {} =>
                  /\ Tools(ev) # <<>> /\ Removals(ev) = <<>>
                  /\ Declared(lastCall.fn) \subseteq lastCall.post

C2_Witness ==
    /\ lastCall.fn = "makeSdistortion"
    /\ lastCall.pre \cap SdistFiles # {}
    /\ lastCall.overwrite
    /\ Tools(lastCall.ev) = <<Tool("nssdist")>>

\* The skip warning of each step that has outputs.
SkipWarning(step) ==
    CASE step = 2 -> Warn("skip prepareCalibrations")
      [] step = 3 -> Warn("skip masterflat")
      [] step = 4 -> Warn("skip makeSdistortion")
      [] step = 5 -> Warn("skip makeWaveCal")
      [] OTHER -> Warn("none")

\* The i-th step entered called its step function (it was not ended by the
\* array ID or grating exit).
StepFunctionCalled(i) == ~(i = Len(executed) /\ calpc = "exit")

\* C3: an invocation with overwrite=false that finds every declared output of a
\* directory on disk changes no file of it and calls no task, and each step
\* function with outputs that it calls logs its skip warning.
C3_SecondRunIdempotent ==
    (cur # 0 /\ ~config.overwrite /\ OutputFiles \subseteq fs0[cur]) =>
        /\ fs[cur] = fs0[cur]
        /\ Tools(log) = <<>>
        /\ Removals(log) = <<>>
        /\ \A i \in DOMAIN executed :
              (executed[i] \in 2..5 /\ StepFunctionCalled(i))
                  => SkipWarning(executed[i]) \in Range(log)

C3_Witness ==
    /\ run = 2 /\ cur # 0 /\ ~config.overwrite
    /\ OutputFiles \subseteq fs0[cur]
    /\ executed = <<1, 2, 3, 4, 5>>
    /\ outcome[cur] = "complete"

\* Directory d has been reached by the for loop of the current invocation.
Reached(d) == d <= cur

\* Nothing is processed after directory d.
StoppedAt(d) ==
    /\ calpc = "exit" /\ cur = d /\ di = d
    /\ \A j \in Dirs : j > d => outcome[j] = "pending"

\* C4: an unknown XD configuration, a missing manifest and, in step 2, an
\* unknown array ID end the run there: the task of the failing step is not
\* called, no later step and no later directory is processed.
C4_FatalConfiguration ==
    /\ \A d \in Dirs :
          (Reached(d) /\ config.dirs[d].enabled
              /\ (~KnownXD(config.dirs[d].calpath) \/ ~(Manifests \subseteq fs[d]))) =>
                /\ StoppedAt(d)
                /\ outcome[d] \in {"exit: unknown XD configuration", "exit: missing manifest"}
                /\ executed = <<>> /\ Tools(log) = <<>>
    /\ lastCall.arrayid = "other" =>
          /\ StoppedAt(cur)
          /\ outcome[cur] = "exit: unknown array ID"
          /\ executed[Len(executed)] = 2
          /\ Tools(lastCall.ev) = <<>> /\ fs[cur] = lastCall.pre

C4_Witness ==
    /\ Len(config.dirs) = 2 /\ cur = 1
    /\ lastCall.arrayid = "other"
    /\ calpc = "exit"
    /\ executed = <<1, 2>>

\* C5 (as claimed): a directory with a recognised XD configuration, all
\* manifests, a known grating and array ID and succeeding tasks ends a 1..5 run
\* in the completion state; no terminal state other than completion and the
\* declared fatal exits exists.
C5_RecognisedConfigCompletes ==
    \A d \in Dirs :
        (/\ config.start = 1 /\ config.stop = 5
         /\ config.dirs[d].enabled
         /\ KnownXD(config.dirs[d].calpath) /\ KnownGrating(config.dirs[d].calpath)
         /\ Manifests \subseteq fs[d]
         /\ outcome[d] \notin {"pending", "exit: unknown array ID", "exit: imcopy failed"})
            => outcome[d] = "complete"

\* C6 (as claimed): whenever the for loop is about to take the next directory,
\* the working directory is the one start() was called from.
C6_CwdRestoredBetweenDirectories ==
    calpc = "setup" => cwd = 0

----------------------------------------------------------------------------
\* Claims about the 1D extraction stage.

\* The directory processed last got as far as extracting.
Extracted == eend \in {"done", "error: sciacq is not defined"}

\* C7: the values of useApall, checkPeaksMatch, calculateSpectrumSNR and
\* subtractBkg used for a directory are those of the configuration file
\* (subtractBkg being 'fit' throughout an interactive run), whatever happened in
\* the directories processed before it.
C7_SettingsEqualConfiguration ==
    Extracted =>
        /\ Truthy(applied.useApall) = econfig.useApall
        /\ applied.checkPeaksMatch = econfig.checkPeaksMatch
        /\ applied.calculateSpectrumSNR = econfig.calculateSpectrumSNR
        /\ applied.subtractBkg =
              IF econfig.nsextractInter THEN "fit" ELSE econfig.subtractBkg

\* C8: a call of extractSpectra1D invokes nsextract exactly when the prefixed
\* output is absent or overwrite is set; an existing output is removed before
\* the task when overwrite is set, and with overwrite unset nothing is removed
\* and nothing is computed.
C8_ExtractIffAbsentOrOverwrite ==
    \A i \in DOMAIN calls :
        LET c == calls[i]
            out == Prefixed(c.inimage)
            existed == out \in c.pre
        IN  /\ Tools(c.ev) = (IF ~existed \/ c.overwrite
                              THEN <<Tool("nsextract")>> ELSE <<>>)
            /\ (existed /\ c.overwrite) =>
                  /\ Removals(c.ev) = <<Remove({out})>>
                  /\ RemovedBeforeTools(c.ev, {out})
            /\ (existed /\ ~c.overwrite) =>
                  /\ Removals(c.ev) = <<>>
                  /\ c.post = c.pre
            /\ ~existed => Removals(c.ev) = <<>> /\ out \in c.post

C8_Witness ==
    /\ Len(calls) = 2
    /\ Prefixed(combinedsrc) \in calls[1].pre
    /\ calls[1].overwrite
    /\ Tools(calls[1].ev) # <<>>
    /\ Prefixed(combinedsky) \notin calls[2].pre

----------------------------------------------------------------------------
\* Claims about the peak-matching loop.

Returned == ppc = "done" /\ matched.status = "ok"

\* The distance of the located science peak of extension i from where the
\* telluric peak and the offset put it.
Distance(i) == Abs(scipeaks[i].center - (telpeaks[i].center + pixeldifference))

\* C9: when peaksMatch returns, peaksMatched has one entry per extension; the
\* entry of an extension with a located science peak is true exactly when the
\* distance is below the tolerance, a distance equal to the tolerance being a
\* mismatch; the entry of an extension with a missing science peak is false.
C9_MatchedIffWithinTolerance ==
    Returned =>
        /\ Len(matched.peaksMatched) = Len(scipeaks)
        /\ \A i \in DOMAIN scipeaks :
              /\ scipeaks[i].found =>
                    (matched.peaksMatched[i] <=> Distance(i) < toleranceOffset)
              /\ (scipeaks[i].found /\ Distance(i) = toleranceOffset) =>
                    ~matched.peaksMatched[i]
              /\ ~scipeaks[i].found => ~matched.peaksMatched[i]

C9_Witness ==
    /\ Returned
    /\ Len(scipeaks) = 2
    /\ scipeaks[1].found /\ Distance(1) = toleranceOffset /\ ~matched.peaksMatched[1]
    /\ scipeaks[2].found /\ Distance(2) < toleranceOffset /\ matched.peaksMatched[2]

\* C10: when peaksMatch returns, reExtract is true exactly when some entry of
\* peaksMatched is false, wherever in the list it stands.
C10_ReExtractIffSomeUnmatched ==
    Returned =>
        (matched.reExtract <=> \E i \in DOMAIN matched.peaksMatched :
                                   ~matched.peaksMatched[i])

\* C11: a call of reExtractSpectra1D that finds fewer extensions than there are
\* orders ends in the fatal exit, and one that finds as many returns normally.
C11_ExtensionCountVerified ==
    ppc = "reextracted" =>
        /\ reextracted.extensions < Len(reextracted.orders) =>
              reextracted.status = "SystemExit"
        /\ reextracted.extensions = Len(reextracted.orders) =>
              reextracted.status = "ok"

\* The directory processed last, once it got as far as extracting.
LastObservation == econfig.obs[ecwd]

PeaksEntered == Tools(peakcheck.ev) # <<>>

\* C12: the peak functions are entered for a science directory only, and only
\* with nsextractInter false, checkPeaksMatch true and the telluric database
\* directory and its aperture reference files there; for a science directory
\* whose telluric reference files are missing a warning is logged, the peak
\* functions are not entered and the stage goes on to the next directory.
C12_PeakCheckScienceOnly ==
    (ecwd # 0 /\ Extracted) =>
        /\ PeaksEntered =>
              /\ LastObservation.section = "ScienceDirectories"
              /\ ~econfig.nsextractInter
              /\ econfig.checkPeaksMatch
              /\ peakcheck.tel.telDatabase /\ peakcheck.tel.telapfiles > 0
        /\ LastObservation.section = "TelluricDirectories" => peakcheck = NoPeakCheck
        /\ (peakcheck.read
            /\ ~(peakcheck.tel.telDatabase /\ peakcheck.tel.telapfiles > 0)) =>
              /\ ~PeaksEntered
              /\ Warnings(peakcheck.ev) # <<>>
              /\ eend = "done" /\ epc = "loop" /\ oi = ecwd + 1

C12_Witness ==
    /\ ecwd = 2 /\ Extracted
    /\ econfig.obs[1].section = "TelluricDirectories" /\ econfig.obs[1].enabled
    /\ peakcheck.read /\ peakcheck.tel.telDatabase /\ peakcheck.tel.telapfiles = 0
    /\ eend = "done"

----------------------------------------------------------------------------
\* flux_calibrate.start for one science directory: the choice of the standard
\* and the loop over the orders. The exposure times, the magnitudes and the file
\* lists are read before and in the loop from names that are bound nowhere in
\* the module; the loop is modelled with them as inputs.

MaxOrder == 6     \* the last order of the long list of orders

\* The lists of orders get_orders returns: the short one and the long one.
FluxOrderLists == { <<3, 4, 5>>, Upto(3, MaxOrder) }

\* The four outputs of an order: the unscaled and the scaled blackbody, and the
\* flux calibrated spectrum as a single and as a multi-extension file.
FluxOutputs == {"bb_unscaled", "bb_scaled", "SEF", "MEF"}

\* What the science directory may hold of an order when the stage starts.
OldOutputs == { {}, {"SEF"}, FluxOutputs }

\* The first wavelength of an order as its header gives it, and the lengths
\* (NAXIS1 * CD1_1) an order may have.
WaveStart(o) == (9 - o) * 10

WaveLengths == {8, 10, 14}

\* stdMagnitudes[i]: empty, or a magnitude.
Magnitudes == {"", "8.0"}

\* Variant: the absolute tag whatever the branch.
Units_AlwaysAbsolute(abs_fluxcal) == "erg/cm^2/s/A"

\* fluxcalib_units_in_headers
Units(abs_fluxcal) == IF abs_fluxcal THEN "erg/cm^2/s/A" ELSE "Flambda, relative"

\* Variant: orders up to 6 are scaled to the magnitude.
AnchorOrder_UpTo6(o) == 3 <= o /\ o <= 6

\* "if 3 <= orders[i] <= 5"
AnchorOrder(o) == 3 <= o /\ o <= 5

\* What one pass of the loop leaves: the files, and the record of the pass
\* (waveEnd is recorded for the orders above 5, whose overlap is examined).
OrderPass(files, o, pre, status, removed, mag, waveEnd, scale, units) ==
    [disk |-> files,
     rec |-> [order |-> o, pre |-> pre, status |-> status, removed |-> removed,
              mag |-> mag, waveEnd |-> waveEnd, scale |-> scale, units |-> units,
              written |-> files[o] \ (pre \ removed)]]

NoScale == [kind |-> "none", w1 |-> 0, w2 |-> 0, reads |-> {}]

\* One pass of "for i in range(len(orders))". files[o] are the outputs of order
\* o in the directory, mag is stdMagnitudes[i] and length the length of the order
\* in wavelength.
calibrateOrder(files, i, ords, overwrite, mag, length) ==
    LET o == ords[i]
        oldfiles == files[o]
        waveStart == WaveStart(o)
        waveEnd == waveStart + length
        blackbody == [files EXCEPT ![o] = {"bb_unscaled"}]
        done == [files EXCEPT ![o] = FluxOutputs]
    IN  IF ~overwrite
        THEN OrderPass(files, o, oldfiles, "skipped", {}, "unread", 0, NoScale, "none")
        ELSE IF AnchorOrder(o)
        THEN OrderPass(done, o, oldfiles, "calibrated", oldfiles, mag, 0,
                       [kind |-> "flambda", w1 |-> 0, w2 |-> 0, reads |-> {}],
                       Units(mag # ""))
        ELSE IF waveEnd < WaveStart(ords[i - 1])
        THEN \* the arguments of the error message read orderi, bound nowhere
             OrderPass(blackbody, o, oldfiles, "error: orderi is not defined",
                       oldfiles, mag, waveEnd, NoScale, "none")
        ELSE IF "bb_scaled" \notin files[ords[i - 1]]
        THEN OrderPass(blackbody, o, oldfiles, "error: scopy input missing",
                       oldfiles, mag, waveEnd, NoScale, "none")
        ELSE OrderPass(done, o, oldfiles, "calibrated", oldfiles, mag, waveEnd,
                       [kind |-> "overlap", w1 |-> waveStart, w2 |-> waveEnd,
                        reads |-> {<<"bb_scaled", ords[i - 1]>>}],
                       Units(mag # ""))

Methods == {"fluxcalibrator", "telluricapproximate", "other"}

\* Variant: the two directories exchanged.
StdPath_Exchanged(method) ==
    IF method = "fluxcalibrator" THEN "../Telluric/Intermediate"
    ELSE IF method = "telluricapproximate" THEN "../Standard/Intermediate"
    ELSE "unbound"

\* stdpath
StdPath(method) ==
    IF method = "fluxcalibrator" THEN "../Standard/Intermediate"
    ELSE IF method = "telluricapproximate" THEN "../Telluric/Intermediate"
    ELSE "unbound"

\* utils.requires: the spectra of the science and of the standard must be there.
requires(present) == IF present THEN "ok" ELSE "exit: required files missing"

\* From the test of the method to the loop over the orders: the standard
\* directory chosen, and where the run stands after it. exists[d] tells whether
\* directory d is there.
enterDirectory(method, exists, present) ==
    LET stdpath == StdPath(method)
    IN  [stdpath |-> stdpath,
         end |-> IF stdpath = "unbound" THEN "exit: unknown method"
                 ELSE IF ~exists[stdpath] THEN "exit: standard directory missing"
                 ELSE IF requires(present) # "ok" THEN requires(present)
                 ELSE IF method = "fluxcalibrator" THEN "exit: method not implemented"
                 ELSE "orders"]

FluxInit ==
    /\ fcfg \in [enabled : BOOLEAN, method : Methods, overwrite : BOOLEAN,
                  orders : FluxOrderLists]
    /\ fpc = "enter"
    /\ fentry = [stdpath |-> "unbound", end |-> "none"]
    /\ fo = 1
    /\ fdisk \in [Range(fcfg.orders) -> OldOutputs]
    /\ passes = <<>>

\* "if not config.getboolean(...): continue", and the return after the loop
\* over the directories.
SkipScience ==
    /\ fpc = "enter"
    /\ ~fcfg.enabled
    /\ fpc' = "returned"
    /\ UNCHANGED <<fcfg, fentry, fo, fdisk, passes>>
    /\ UNCHANGED <<calVars, extVars, peakVars, checkVars, reportVars, funVars>>

EnterScience ==
    /\ fpc = "enter"
    /\ fcfg.enabled
    /\ \E exists \in [{StdPath("fluxcalibrator"), StdPath("telluricapproximate")}
                        -> BOOLEAN], present \in BOOLEAN :
          /\ fentry' = enterDirectory(fcfg.method, exists, present)
          /\ fpc' = IF fentry'.end = "orders" THEN "orders" ELSE "exit"
    /\ UNCHANGED <<fcfg, fo, fdisk, passes>>
    /\ UNCHANGED <<calVars, extVars, peakVars, checkVars, reportVars, funVars>>

CalibrateOrder ==
    /\ fpc = "orders"
    /\ fo \in DOMAIN fcfg.orders
    /\ \E mag \in Magnitudes, length \in WaveLengths :
          LET p == calibrateOrder(fdisk, fo, fcfg.orders, fcfg.overwrite, mag, length)
          IN  /\ fdisk' = p.disk
              /\ passes' = Append(passes, p.rec)
              /\ IF p.rec.status \in {"skipped", "calibrated"}
                 THEN fo' = fo + 1 /\ UNCHANGED fpc
                 ELSE fpc' = "error" /\ UNCHANGED fo
    /\ UNCHANGED <<fcfg, fentry>>
    /\ UNCHANGED <<calVars, extVars, peakVars, checkVars, reportVars, funVars>>

\* After the last order: the directory is complete and start() returns.
OrdersDone ==
    /\ fpc = "orders"
    /\ fo > Len(fcfg.orders)
    /\ fpc' = "returned"
    /\ UNCHANGED <<fcfg, fentry, fo, fdisk, passes>>
    /\ UNCHANGED <<calVars, extVars, peakVars, checkVars, reportVars, funVars>>

FluxNext == SkipScience \/ EnterScience \/ CalibrateOrder \/ OrdersDone

InitFlux ==
    CalIdle /\ ExtIdle /\ PeaksIdle /\ FluxInit /\ CheckIdle /\ ReportIdle /\ FunIdle

SpecFlux == InitFlux /\ [][FluxNext]_vars

----------------------------------------------------------------------------
\* Claims about flux calibration.

\* C13: an order is skipped only when one of its outputs exists and overwrite is
\* false; existing outputs are deleted and the order recomputed when overwrite
\* is true; an order without outputs is flux calibrated whatever overwrite is.
C13_OrderSkippedOnlyIfOutputExists ==
    \A k \in DOMAIN passes :
        LET r == passes[k] IN
        /\ r.status = "skipped" => (r.pre # {} /\ ~fcfg.overwrite)
        /\ (r.pre # {} /\ fcfg.overwrite) => (r.removed = r.pre /\ r.status # "skipped")
        /\ r.pre = {} => r.status # "skipped"

Calibrated(r) == r.status = "calibrated"

\* C14: the units tag of every order that is flux calibrated is the absolute
\* one exactly when a magnitude was supplied for the order, and the relative one
\* otherwise.
C14_UnitsAgreeWithBranch ==
    \A k \in DOMAIN passes :
        Calibrated(passes[k]) =>
            /\ passes[k].units = "erg/cm^2/s/A" <=> passes[k].mag # ""
            /\ passes[k].units = "Flambda, relative" <=> passes[k].mag = ""

C14_Witness ==
    /\ Len(passes) = 2
    /\ Calibrated(passes[1]) /\ passes[1].mag = "" /\ passes[1].units = "Flambda, relative"
    /\ Calibrated(passes[2]) /\ passes[2].mag = "8.0" /\ passes[2].units = "erg/cm^2/s/A"

\* The order before pass k in the list.
Preceding(k) == fcfg.orders[k - 1]

\* C16: an order from 3 to 5 is scaled by flambda over the mean of its blackbody
\* and reads no other order; an order above 5 is scaled by the ratio of the
\* means over its overlap with the preceding order of the list, from the first
\* wavelength of that order to its own last wavelength, and the scaled blackbody
\* of the preceding order was produced by the pass before.
C16_ScalePropagatesByOverlap ==
    \A k \in DOMAIN passes :
        LET r == passes[k] IN
        Calibrated(r) =>
            IF r.order <= 5
            THEN r.scale.kind = "flambda" /\ r.scale.reads = {}
            ELSE /\ r.scale.kind = "overlap"
                 /\ r.scale.reads = {<<"bb_scaled", Preceding(k)>>}
                 /\ Calibrated(passes[k - 1]) /\ passes[k - 1].order = Preceding(k)
                 /\ r.scale.w1 = WaveStart(Preceding(k))
                 /\ r.scale.w2 = r.waveEnd

\* C17: a pass for an order above 5 whose last wavelength is below the first
\* wavelength of the preceding order ends the run by the fatal exit, without a
\* scaled blackbody or a flux calibrated spectrum for the order, and what the
\* passes before wrote is still there.
C17_NoOverlapIsFatal ==
    \A k \in DOMAIN passes :
        LET r == passes[k] IN
        (fcfg.overwrite /\ r.order > 5 /\ r.waveEnd < WaveStart(Preceding(k))) =>
            /\ r.status = "exit: orders do not overlap"
            /\ fdisk[r.order] \cap {"bb_scaled", "SEF", "MEF"} = {}
            /\ \A j \in 1..(k - 1) : passes[j].written \subseteq fdisk[passes[j].order]

\* The directory has been entered.
Entered == fentry.end # "none"

\* C18: 'telluricapproximate' takes the telluric directory as the standard and
\* 'fluxcalibrator' the standard-star directory; with another method, or with
\* that directory missing, the run exits before a pass of the loop has removed
\* or written a file; with 'fluxcalibrator' the run exits without a pass.
C18_StandardByMethod ==
    Entered =>
        /\ fcfg.method = "telluricapproximate" =>
              fentry.stdpath = "../Telluric/Intermediate"
        /\ fcfg.method = "fluxcalibrator" =>
              fentry.stdpath = "../Standard/Intermediate"
        /\ (fcfg.method \notin {"telluricapproximate", "fluxcalibrator"}
            \/ fentry.end = "exit: standard directory missing") =>
              fpc = "exit" /\ passes = <<>>
        /\ fcfg.method = "fluxcalibrator" => fpc = "exit" /\ passes = <<>>
        /\ passes # <<>> => fcfg.method = "telluricapproximate"

C18_Witness ==
    /\ fcfg.method = "fluxcalibrator"
    /\ fentry.end = "exit: method not implemented"
    /\ fpc = "exit"

\* ---------------------------------------------------------------------------
\* gnirsCheckData.checklist: the check of one manifest against the headers of
\* its directory. The files of a manifest are named 1, 2, ... in their order.
\* ---------------------------------------------------------------------------
MaxFiles == 4

Fields == {"CONFIG", "COORDS", "OBJECT", "OBSTYPE"}

ExpTimes == {1, 5, 300}

Base ==
    [hdr |-> TRUE, CONFIG |-> "c1", COORDS |-> "p1", OBJECT |-> "t1",
     OBSTYPE |-> "OBJECT", EXPTIME |-> 5]

\* A header that differs from Base in one field.
Alt(field) ==
    [Base EXCEPT ![field] = IF field = "OBSTYPE" THEN "ARC" ELSE "other"]

\* "f not in headerdict"
NoHeader == [Base EXCEPT !.hdr = FALSE]

\* The headers a directory holds in one run.
Headers(field) ==
    {NoHeader} \cup {[h EXCEPT !.EXPTIME = e] : h \in {Base, Alt(field)}, e \in ExpTimes}

\* The values of a keyword that the loop over the files has appended.
Appended(files, hd, key) ==
    {hd[files[i]][key] : i \in {k \in DOMAIN files : hd[files[k]].hdr}}

\* collections.Counter(exptimes)[v]
Freq(files, hd, v) ==
    Cardinality({k \in DOMAIN files : hd[files[k]].hdr /\ hd[files[k]].EXPTIME = v})

\* The values freq.most_common(1)[0] can return: a value with the largest count.
MostCommon(files, hd) ==
    LET exptimes == Appended(files, hd, "EXPTIME")
    IN  {v \in exptimes : \A w \in exptimes : Freq(files, hd, v) >= Freq(files, hd, w)}

\* freq.values().count(val): the number of counts that equal the value val.
Npeak(files, hd, val) ==
    Cardinality({v \in Appended(files, hd, "EXPTIME") : Freq(files, hd, v) = val})

\* The loop that rewrites the list: headerdict[f] of a file that is not in the
\* dictionary raises KeyError, the lines written before it stay in the file.
RECURSIVE Rewrite(_, _, _)
Rewrite(files, hd, val) ==
    IF files = <<>> THEN [files |-> <<>>, end |-> "returned"]
    ELSE IF ~hd[Head(files)].hdr THEN [files |-> <<>>, end |-> "KeyError"]
    ELSE LET rest == Rewrite(Tail(files), hd, val)
         IN  [files |-> IF hd[Head(files)].EXPTIME = val
                        THEN <<Head(files)>> \o rest.files ELSE rest.files,
              end |-> rest.end]

NoBackup == [exists |-> FALSE, files |-> <<>>]

\* What a call of checklist leaves: the list file, its backup, the files
\* reported as not found, the keywords reported with multiple values, whether
\* the list was reported as too short, and how the call ended.
Checked(files, bak, notfound, multiple, short, val, end) ==
    [files |-> files, bak |-> bak, notfound |-> notfound, multiple |-> multiple,
     short |-> short, val |-> val, end |-> end]

\* checklist(filelist, path, headerdict); found: the list file exists, val:
\* the value most_common returns
checklist(found, files, hd, val) ==
    LET notfound == {files[k] : k \in {j \in DOMAIN files : ~hd[files[j]].hdr}}
        f        == files[Len(files)]
        minfiles == IF hd[f].OBSTYPE = "OBJECT" THEN 2 ELSE 1
        multiple == {key \in Fields \cup {"EXPTIME"} :
                        Cardinality(Appended(files, hd, key)) # 1}
        written  == Rewrite(files, hd, val)
        num      == Freq(files, hd, val)
    IN  IF ~found THEN Checked(files, NoBackup, {}, {}, FALSE, 0, "returned: no list")
        ELSE IF ~hd[f].hdr
        THEN Checked(files, NoBackup, notfound, {}, FALSE, 0, "KeyError")
        ELSE IF "EXPTIME" \notin multiple
        THEN Checked(files, NoBackup, notfound, multiple, Len(files) < minfiles, 0,
                     "returned")
        ELSE IF Npeak(files, hd, val) > 1
        THEN Checked(files, NoBackup, notfound, multiple, Len(files) < minfiles, val,
                     "exit: most common value occurs several times")
        ELSE Checked(written.files, [exists |-> TRUE, files |-> files], notfound,
                     multiple,
                     Len(files) < minfiles
                         \/ (written.end = "returned" /\ num < minfiles),
                     val, written.end)

CheckInit ==
    /\ \E n \in 1..MaxFiles, field \in Fields :
          /\ headerdict \in [1..n -> Headers(field)]
          /\ manifest = [files |-> [k \in 1..n |-> k], bak |-> NoBackup,
                         given |-> [k \in 1..n |-> k]]
    /\ cpc = "check"
    /\ report = Checked(<<>>, NoBackup, {}, {}, FALSE, 0, "none")

Checklist ==
    /\ cpc = "check"
    /\ \E found \in BOOLEAN,
          val \in (IF MostCommon(manifest.files, headerdict) = {} THEN {0}
                   ELSE MostCommon(manifest.files, headerdict)) :
          LET r == checklist(found, manifest.files, headerdict, val)
          IN  /\ report' = r
              /\ manifest' = [manifest EXCEPT !.files = r.files, !.bak = r.bak]
    /\ cpc' = "done"
    /\ UNCHANGED headerdict
    /\ UNCHANGED <<calVars, extVars, peakVars, fluxVars, reportVars, funVars>>

CheckNext == Checklist

InitCheck ==
    CalIdle /\ ExtIdle /\ PeaksIdle /\ FluxIdle /\ CheckInit /\ ReportIdle /\ FunIdle

SpecCheck == InitCheck /\ [][CheckNext]_vars

\* Two files of the list that are in the dictionary differ in the keyword.
Differ(key) ==
    \E a, b \in DOMAIN headerdict :
        /\ headerdict[a].hdr /\ headerdict[b].hdr
        /\ headerdict[a][key] # headerdict[b][key]

\* The list file was found and checklist has acted on it.
Checked_Found == cpc = "done" /\ report.end # "returned: no list"

\* C19: whenever two listed files differ in configuration, coordinates, target
\* name or observation type, checklist reports that keyword as having multiple
\* values; when the listed files agree in every keyword, the exposure time
\* included, the list file is as it was given and there is no '.bak'.
C19_InconsistencyReported ==
    Checked_Found =>
        /\ \A key \in Fields : Differ(key) => key \in report.multiple
        /\ (\A key \in Fields \cup {"EXPTIME"} : ~Differ(key)) =>
              manifest.files = manifest.given /\ ~manifest.bak.exists

\* The exposure times of the listed files differ and one value is more frequent
\* than every other.
SingleMostCommon ==
    /\ \A k \in DOMAIN headerdict : headerdict[k].hdr
    /\ Differ("EXPTIME")
    /\ Cardinality(MostCommon(manifest.given, headerdict)) = 1

\* The files of the given list whose exposure time is the most common one.
Majority ==
    SelectSeq(manifest.given,
              LAMBDA f : headerdict[f].EXPTIME \in MostCommon(manifest.given, headerdict))

\* C20: when the exposure times differ and a single value is the most
\* common, the given list is copied to '.bak' and the list file holds exactly
\* the files with that value, in their order.
C20_MajorityPruning ==
    (Checked_Found /\ SingleMostCommon) =>
        /\ manifest.bak = [exists |-> TRUE, files |-> manifest.given]
        /\ manifest.files = Majority

\* Every listed file is in the dictionary and two or more exposure times share
\* the largest count.
TiedMostCommon ==
    /\ \A k \in DOMAIN headerdict : headerdict[k].hdr
    /\ Cardinality(MostCommon(manifest.given, headerdict)) > 1

\* C21: when two or more exposure times tie for the most common value,
\* checklist ends the run, with no '.bak' made and the list file as given.
C21_TieIsFatal ==
    (Checked_Found /\ TiedMostCommon) =>
        /\ report.end = "exit: most common value occurs several times"
        /\ ~manifest.bak.exists
        /\ manifest.files = manifest.given

\* The listed files that are not in the header dictionary.
Absent == {k \in DOMAIN headerdict : ~headerdict[k].hdr}

\* C30: a listed file that is not in the header dictionary is reported and
\* left out of the comparisons, and checklist completes without an exception
\* wherever that file stands in the list, also when the list is rewritten.
C30_AbsentFilesTolerated ==
    Checked_Found =>
        /\ report.notfound = Absent
        /\ report.end # "KeyError"

\* ---------------------------------------------------------------------------
\* write_pdf.start: one data sheet per science directory.
\* ---------------------------------------------------------------------------
MaxTargets == 2

\* The keywords imexam reads inside try/except, and OBJECT, read outside it.
HeaderKeys ==
    {"GEMPRGID", "AIRMASS", "RA", "DEC", "HA", "AZIMUTH", "PA", "OBSERVAT",
     "RAWIQ", "RAWCC", "RAWWV", "RAWBG", "DATE-OBS", "OBJECT"}

\* imexam(path): measured tells whether the aperture file and the imexam log
\* held the lines the function parses; the keywords in missing are not in the
\* header. none: the keywords set to None.
imexam(measured, missing) ==
    [none |-> missing \ {"OBJECT"},
     end  |-> IF ~measured THEN "NameError"
              ELSE IF "OBJECT" \in missing THEN "KeyError"
              ELSE "ok"]

\* The body of the loop for one directory whose value is process; sci and tel
\* are the missing keywords of the science and of the telluric header.
datasheet(process, measured, sci, tel, extractFullSlit, extractStepwise) ==
    LET s == imexam(measured, sci)
        t == imexam(measured, tel)
        angle(d) == IF "DEC" \in d.none THEN "TypeError"
                    ELSE IF "HA" \in d.none THEN "AttributeError"
                    ELSE IF "OBSERVAT" \in d.none THEN "SystemExit"
                    ELSE IF "AZIMUTH" \in d.none THEN "TypeError"
                    ELSE "ok"
        Doc(opened, ran, none, pages, end) ==
            [process |-> process, opened |-> opened, measured |-> ran,
             none |-> none, pages |-> pages, end |-> end]
    IN  IF process = "" THEN Doc(FALSE, FALSE, {}, 0, "skipped")
        ELSE IF s.end # "ok" THEN Doc(TRUE, TRUE, {}, 0, s.end)
        ELSE IF t.end # "ok" THEN Doc(TRUE, TRUE, s.none, 0, t.end)
        ELSE IF angle(s) # "ok" THEN Doc(TRUE, TRUE, s.none \cup t.none, 0, angle(s))
        ELSE IF angle(t) # "ok" THEN Doc(TRUE, TRUE, s.none \cup t.none, 0, angle(t))
        ELSE IF {"GEMPRGID", "DATE-OBS"} \cap s.none # {}
                \/ "PA" \in s.none \cup t.none
        THEN Doc(TRUE, TRUE, s.none \cup t.none, 0, "TypeError")
        ELSE IF extractFullSlit THEN Doc(TRUE, TRUE, s.none \cup t.none, 2, "TypeError")
        ELSE IF extractStepwise THEN Doc(TRUE, TRUE, s.none \cup t.none, 2, "NameError")
        ELSE Doc(TRUE, TRUE, s.none \cup t.none, 2, "closed")

ReportInit ==
    /\ \E n \in 1..MaxTargets :
          rcfg \in [targets : [1..n -> {"True", "False", ""}],
                    extractFullSlit : BOOLEAN, extractStepwise : BOOLEAN]
    /\ rpc = "targets"
    /\ ri = 1
    /\ docs = <<>>

\* One pass of "for path, process in config.items('ScienceDirectories')".
ReportTarget ==
    /\ rpc = "targets"
    /\ ri <= Len(rcfg.targets)
    /\ \E measured \in BOOLEAN, which \in {"sci", "tel"},
          missing \in {{}} \cup {{k} : k \in HeaderKeys} :
          LET d == datasheet(rcfg.targets[ri], measured,
                             IF which = "sci" THEN missing ELSE {},
                             IF which = "tel" THEN missing ELSE {},
                             rcfg.extractFullSlit, rcfg.extractStepwise)
          IN  /\ docs' = Append(docs, d)
              /\ rpc' = IF d.end \in {"skipped", "closed"} THEN "targets" ELSE "error"
    /\ ri' = ri + 1
    /\ UNCHANGED rcfg
    /\ UNCHANGED <<calVars, extVars, peakVars, fluxVars, checkVars, funVars>>

ReportReturn ==
    /\ rpc = "targets"
    /\ ri > Len(rcfg.targets)
    /\ rpc' = "returned"
    /\ UNCHANGED <<rcfg, ri, docs>>
    /\ UNCHANGED <<calVars, extVars, peakVars, fluxVars, checkVars, funVars>>

ReportNext == ReportTarget \/ ReportReturn

InitReport ==
    CalIdle /\ ExtIdle /\ PeaksIdle /\ FluxIdle /\ CheckIdle /\ ReportInit /\ FunIdle

SpecReport == InitReport /\ [][ReportNext]_vars

\* C22: for a science directory whose flag is false no report document is
\* opened and no measurement is run.
C22_ReportOnlyIfEnabled ==
    \A k \in DOMAIN docs :
        docs[k].process = "False" => ~docs[k].opened /\ ~docs[k].measured

\* C23: a header keyword that cannot be read is degraded with a warning, and
\* the report of the directory is still produced.
C23_MissingHeaderDegrades ==
    \A k \in DOMAIN docs :
        (docs[k].measured /\ docs[k].end # "NameError"
            /\ ~rcfg.extractFullSlit /\ ~rcfg.extractStepwise)
        => docs[k].end = "closed"

\* The last step body run was makeSdistortion.
SdistortionRan == lastCall.fn = "makeSdistortion"

\* C24: whatever number of features the database files report,
\* makeSdistortion returns and the runner goes on past step 4.
C24_PinholeMismatchNotFatal ==
    SdistortionRan =>
        /\ valindex = 5
        /\ calpc \notin {"exit", "error"}
        /\ outcome[lastCall.dir] \in {"pending", "complete"}

C24_Witness ==
    /\ SdistortionRan
    /\ \E k \in DOMAIN lastCall.ev : "pinhole count" \in lastCall.ev[k].a
    /\ calpc = "steps"
    /\ valindex <= stop

\* C27: the table of nominal wavelengths and the accuracy that step 5 hands to
\* makeWaveCal were bound by the XD configuration of the directory at hand,
\* never by a directory processed before it.
C27_WavelengthsOfOwnDirectory ==
    lastCall.fn = "makeWaveCal" =>
        /\ BindsWavelengths(config.dirs[lastCall.dir].calpath)
        /\ nominal_wavelengths = "SB_SXD"
        /\ advertised_accuracy_percent = AccuracySB

\* C28: whenever a step body has executed, 1 <= its step <= stop <= 5; the
\* 'is not valid' branch of the dispatch is never taken.
C28_StepWithinRange ==
    /\ \A k \in DOMAIN executed :
          FirstStep <= executed[k] /\ executed[k] <= stop /\ stop <= LastStep
    /\ \A d \in DOMAIN outcome : outcome[d] # "exit: invalid step"

C28_Witness ==
    /\ calpc = "steps"
    /\ executed # <<>>
    /\ InvalidRange(config.start, config.stop)

\* ---------------------------------------------------------------------------
\* Single calls of makeFlat, of peaksFind and of gnirsCheckData.start on the
\* inputs a directory can hold.
\* ---------------------------------------------------------------------------
MaxLines == 2
MaxTels == 3

\* A line of an aperture file: the value after 'center', or a line without it.
OtherLine == -1
ApLines == {OtherLine, 4, 7}

\* The aperture files of a database, extension 1 first.
ApFiles ==
    UNION { [1..n -> UNION { [1..m -> ApLines] : m \in 0..MaxLines }] : n \in 1..MaxExt }

\* "for line in apfile" from line j on: one value appended per line.
RECURSIVE peaksOfLines(_, _)
peaksOfLines(lines, j) ==
    IF j > Len(lines) THEN <<>>
    ELSE <<IF lines[j] # OtherLine THEN Located(lines[j]) ELSE PeakNotFound>>
             \o peaksOfLines(lines, j + 1)

\* peaksFind, from file i on.
RECURSIVE peaksFind(_, _)
peaksFind(apfiles, i) ==
    IF i > Len(apfiles) THEN <<>>
    ELSE peaksOfLines(apfiles[i], 1) \o peaksFind(apfiles, i + 1)

\* The telluric directories of the configuration, in its order: whether the
\* first file of each has the CONFIG and DATE-OBS of the science, and the
\* difference of its AVETIME to the science's.
TelDirs == UNION { [1..n -> [same : BOOLEAN, dt : {1, 2}]] : n \in 0..MaxTels }

\* The telluric directories that min(dt.values()) can select.
Closest(tels) ==
    {t \in DOMAIN tels :
        tels[t].same /\ \A u \in DOMAIN tels : tels[u].same => tels[t].dt <= tels[u].dt}

\* A call of checklist: the list, and the directories (0: the science or the
\* calibration directory, t: telluric directory t) of its path and of its headers.
Check(list, path, headers) == [list |-> list, path |-> path, headers |-> headers]

\* start() for one science directory. sky: sky.list exists; calMatch: a
\* calibration directory matches; best: the directory found with the smallest
\* time difference.
checkData(enabled, sky, calMatch, tels, best) ==
    LET sci == <<Check("all.list", 0, 0), Check("src.list", 0, 0)>>
                 \o (IF sky THEN <<Check("sky.list", 0, 0)>> ELSE <<>>)
        cal == <<Check("arcs.list", 0, 0), Check("IRflats.list", 0, 0),
                 Check("QHflats.list", 0, 0), Check("arcs.list", 0, 0)>>
        tdir == Len(tels)
    IN  IF ~enabled THEN [checks |-> <<>>, best |-> 0, end |-> "returned"]
        ELSE IF ~calMatch
        THEN [checks |-> sci, best |-> 0, end |-> "exit: no matching calibration"]
        ELSE IF Closest(tels) = {}
        THEN [checks |-> sci \o cal, best |-> 0, end |-> "exit: no matching Telluric"]
        ELSE [checks |-> sci \o cal \o <<Check("all.list", tdir, best),
                                         Check("src.list", tdir, best)>>,
              best |-> best, end |-> "returned"]

FunInit ==
    /\ \/ call \in [fn : {"makeFlat"}, files : SUBSET FlatFiles, overwrite : BOOLEAN]
       \/ call \in [fn : {"peaksFind"}, apfiles : ApFiles]
       \/ call \in [fn : {"start"}, enabled : BOOLEAN, sky : BOOLEAN,
                     calMatch : BOOLEAN, tels : TelDirs]
    /\ ret = [done |-> FALSE]

CallMakeFlat ==
    /\ call.fn = "makeFlat"
    /\ ~ret.done
    /\ ret' = [done |-> TRUE, r |-> makeFlat(call.files, call.overwrite)]
    /\ UNCHANGED call
    /\ UNCHANGED <<calVars, extVars, peakVars, fluxVars, checkVars, reportVars>>

CallPeaksFind ==
    /\ call.fn = "peaksFind"
    /\ ~ret.done
    /\ ret' = [done |-> TRUE, peaks |-> peaksFind(call.apfiles, 1)]
    /\ UNCHANGED call
    /\ UNCHANGED <<calVars, extVars, peakVars, fluxVars, checkVars, reportVars>>

CallStart ==
    /\ call.fn = "start"
    /\ ~ret.done
    /\ \E best \in (IF Closest(call.tels) = {} THEN {0} ELSE Closest(call.tels)) :
          ret' = [done |-> TRUE,
                  r |-> checkData(call.enabled, call.sky, call.calMatch, call.tels, best)]
    /\ UNCHANGED call
    /\ UNCHANGED <<calVars, extVars, peakVars, fluxVars, checkVars, reportVars>>

FunNext == CallMakeFlat \/ CallPeaksFind \/ CallStart

InitFun ==
    CalIdle /\ ExtIdle /\ PeaksIdle /\ FluxIdle /\ CheckIdle /\ ReportIdle /\ FunInit

SpecFun == InitFun /\ [][FunNext]_vars

\* The entry of one aperture file: the value of its 'center' line, or the
\* marker when it has none.
EntryOf(lines) ==
    IF \E j \in DOMAIN lines : lines[j] # OtherLine
    THEN Located(lines[CHOOSE j \in DOMAIN lines : lines[j] # OtherLine])
    ELSE PeakNotFound

\* C26: peaksFind returns one entry per aperture file, entry i being the
\* 'center' value of file i or the marker when the file has no such line,
\* whatever the number of lines of the files.
C26_OnePeakPerApertureFile ==
    (call.fn = "peaksFind" /\ ret.done) =>
        /\ Len(ret.peaks) = Len(call.apfiles)
        /\ \A i \in DOMAIN call.apfiles :
              i \in DOMAIN ret.peaks /\ ret.peaks[i] = EntryOf(call.apfiles[i])

\* makeFlat has returned.
FlatMade == call.fn = "makeFlat" /\ ret.done

\* The tasks makeFlat invoked.
FlatTools == {ret.r.ev[k].a : k \in {j \in DOMAIN ret.r.ev : ret.r.ev[j].k = "tool"}}

\* The files makeFlat removed.
FlatRemoved ==
    UNION {ret.r.ev[k].a : k \in {j \in DOMAIN ret.r.ev : ret.r.ev[j].k = "remove"}}

\* C29: without overwrite makeFlat removes nothing, runs the flat-field task of
\* a lamp iff its flat or its mask is missing, and assembles the master flat
\* iff there is none; with overwrite it removes every existing flat, mask and
\* master flat, each before the task that makes it again.
C29_MakeFlatFrame ==
    FlatMade =>
        /\ ~call.overwrite =>
              /\ FlatRemoved = {}
              /\ call.files \subseteq ret.r.fs
              /\ {"nsflat QH"} \in FlatTools
                    <=> ~({"QHflat", "QHflat_bpm"} \subseteq call.files)
              /\ {"nsflat IR"} \in FlatTools
                    <=> ~({"IRflat", "IRflat_bpm"} \subseteq call.files)
              /\ {"fxcopy"} \in FlatTools <=> "masterflat" \notin call.files
              /\ {"fxinsert"} \in FlatTools <=> "masterflat" \notin call.files
        /\ call.overwrite =>
              /\ FlatRemoved = call.files
              /\ FlatTools = {{"nsflat QH"}, {"nsflat IR"}, {"fxcopy"}, {"fxinsert"}}
              /\ \A k \in DOMAIN ret.r.ev :
                    ret.r.ev[k].k = "remove" =>
                        \E j \in DOMAIN ret.r.ev : j > k /\ ret.r.ev[j].k = "tool"
        /\ ret.r.fs = call.files \cup FlatFiles

C29_Witness ==
    /\ FlatMade
    /\ ~call.overwrite
    /\ call.files = {"QHflat", "IRflat", "IRflat_bpm", "masterflat"}
    /\ FlatTools = {{"nsflat QH"}}

\* start() has gone through an enabled science directory that has a matching
\* calibration directory.
TelluricSought == call.fn = "start" /\ ret.done /\ call.enabled /\ call.calMatch

\* The calls of checklist made for the telluric.
TelluricChecks == SelectSeq(ret.r.checks, LAMBDA c : c.headers # 0 \/ c.path # 0)

\* C25: the telluric chosen is a matching one with the smallest time
\* difference, all.list and src.list are then checked in that directory with
\* its headers, and the run ends when no telluric matches.
C25_ClosestTelluricChecked ==
    TelluricSought =>
        IF Closest(call.tels) = {}
        THEN ret.r.end = "exit: no matching Telluric" /\ TelluricChecks = <<>>
        ELSE /\ ret.r.best \in Closest(call.tels)
             /\ TelluricChecks = <<Check("all.list", ret.r.best, ret.r.best),
                                   Check("src.list", ret.r.best, ret.r.best)>>

====
